---- MODULE Spec2Model ----
(***************************************************************************)
(* A model of jest-github-action (src/src/action.ts).                      *)
(*                                                                         *)
(* Strings the code cuts or matches (paths, comment bodies) are sequences  *)
(* of string tokens, so that String.replace and String.startsWith are      *)
(* computed; table cells are strings built as the code builds them         *)
(* (number + "%").  Percentages are carried in hundredths of a percent.    *)
(*                                                                         *)
(* Spec       the run() orchestration and its collaborators                *)
(* SpecTable  getCoverageTable() over a bounded set of inputs              *)
(* SpecCheck  getCheckPayload() over a bounded set of result documents     *)
(***************************************************************************)
EXTENDS Integers, Sequences, FiniteSets, TLC

VARIABLES
    token,      \* process.env.GITHUB_TOKEN: "" models undefined
    pullId,     \* context.payload.pull_request?.number ?? 0
    inputs,     \* core.getInput(...) values
    baseFile,   \* the file named by base-results-file, as found on disk
    resultsFile,\* RESULTS_FILE as found on disk
    thread,     \* the comments of the change request, oldest first
    nextId,     \* id the collaborator gives the next comment
    pc,         \* where run() is suspended
    failed,     \* core.setFailed was called
    results,    \* const results of run() / the argument of getCoverageTable
    changed,    \* the response of getChangedPRFiles once received
    rows,       \* const rows of getCoverageTable
    comment,    \* what getCoverageTable returned
    pending,    \* deleteComment calls in flight (comment ids)
    log,        \* the calls to the collaborators, in order, and how each ended
    payload     \* const checkPayload of run(): what getCheckPayload built

vars == <<token, pullId, inputs, baseFile, resultsFile, thread, nextId, pc,
          failed, results, changed, rows, comment, pending, log, payload>>

----------------------------------------------------------------------------
(* Bounds *)

MaxFiles == 2        \* files in a coverage map
MaxPrior == 2        \* prior comments drawn freely at the end of the thread
MaxTests == 2        \* test files in a result document
MaxAsserts == 3      \* assertions in a result document, over all its test files

(* Program constants *)

PerPage == 100       \* per_page of issues.listComments

ACTION_NAME == "jest-github-action"
COVERAGE_HEADER == <<":loop: ", "**Code coverage**", "\n\n">>
BOT_LOGIN == "github-actions[bot]"
ALL_FILES == <<"All files">>
DELTA == <<"Δ">>
HEADER_ROW ==
    [label |-> <<"Filename">>,
     cells |-> <<"Statements", "Branches", "Functions", "Lines">>]

----------------------------------------------------------------------------
(* String primitives *)

\* String.prototype.startsWith
StartsWith(s, prefix) ==
    /\ Len(s) >= Len(prefix)
    /\ SubSeq(s, 1, Len(prefix)) = prefix

\* index of the first occurrence of pat in s, 0 when there is none
IndexOf(s, pat) ==
    LET hits == {i \in 1..(Len(s) - Len(pat) + 1) :
                    SubSeq(s, i, i + Len(pat) - 1) = pat}
    IN IF hits = {} THEN 0 ELSE CHOOSE i \in hits : \A j \in hits : i <= j

\* String.prototype.replace(pat, ""): the first occurrence only, anywhere
ReplaceFirst(s, pat) ==
    LET i == IndexOf(s, pat)
    IN IF i = 0 THEN s
       ELSE SubSeq(s, 1, i - 1) \o SubSeq(s, i + Len(pat), Len(s))

\* Number.prototype.toString of h/100 (h in hundredths)
FormatNum(h) ==
    LET a  == IF h < 0 THEN -h ELSE h
        ip == a \div 100
        fp == a % 100
        frac == IF fp = 0 THEN ""
                ELSE IF fp % 10 = 0 THEN "." \o ToString(fp \div 10)
                ELSE IF fp < 10 THEN ".0" \o ToString(fp)
                ELSE "." \o ToString(fp)
    IN (IF h < 0 THEN "-" ELSE "") \o ToString(ip) \o frac

\* <number> + "%"
PctCell(h) == FormatNum(h) \o "%"

----------------------------------------------------------------------------
(* Coverage summaries (istanbul-lib-coverage as the code uses it) *)

\* percent(covered, total), in hundredths
Pct(covered, total) ==
    IF total > 0 THEN (10000 * covered) \div total ELSE 10000

\* fc.toSummary(): the four metric groups of a file, pct included
toSummary(fc) ==
    [m \in {"statements", "branches", "functions", "lines"} |->
        [covered |-> fc[m].covered, total |-> fc[m].total,
         pct |-> Pct(fc[m].covered, fc[m].total)]]

RECURSIVE SumField(_, _, _)
SumField(covMap, m, f) ==
    IF covMap = <<>> THEN 0
    ELSE Head(covMap).data[m][f] + SumField(Tail(covMap), m, f)

\* createCoverageSummary() merged with every file's summary
mergeAll(covMap) ==
    [m \in {"statements", "branches", "functions", "lines"} |->
        [covered |-> SumField(covMap, m, "covered"),
         total |-> SumField(covMap, m, "total"),
         pct |-> Pct(SumField(covMap, m, "covered"), SumField(covMap, m, "total"))]]

----------------------------------------------------------------------------
(* Files and JSON documents *)

NoDoc == [success |-> FALSE, hasCoverageMap |-> FALSE, coverageMap |-> <<>>]

MissingFile == [exists |-> FALSE, wellFormed |-> FALSE, doc |-> NoDoc]
MalformedFile == [exists |-> TRUE, wellFormed |-> FALSE, doc |-> NoDoc]
FileOf(doc) == [exists |-> TRUE, wellFormed |-> TRUE, doc |-> doc]

\* parseResults: undefined for a missing file, JSON.parse throws on malformed text
parseResults(file) ==
    IF file.exists
    THEN IF file.wellFormed
         THEN [kind |-> "value", doc |-> file.doc]
         ELSE [kind |-> "throw", doc |-> NoDoc]
    ELSE [kind |-> "undefined", doc |-> NoDoc]

\* Boolean(JSON.parse(input)) for the inputs action.yml declares as booleans
ParseBool(s) == s = "true"

shouldCommentCoverage(in) == ParseBool(in.coverageComment)

shouldShowOnlyCoverageChangedFiles(in) == ParseBool(in.coverageChangesOnly)

----------------------------------------------------------------------------
(* Values a JavaScript expression can yield here *)

NoValue == [type |-> "none", str |-> <<>>, bool |-> FALSE]
StringValue(s) == [type |-> "string", str |-> s, bool |-> FALSE]
\* the failure signal is confused with the empty string
FalseValue_EmptyString == [type |-> "string", str |-> <<>>, bool |-> FALSE]

FalseValue == [type |-> "boolean", str |-> <<>>, bool |-> FALSE]
Thrown == [type |-> "throw", str |-> <<>>, bool |-> FALSE]

\* the truthiness test of `if (comment)`
Truthy(v) ==
    \/ v.type = "string" /\ v.str # <<>>
    \/ v.type = "boolean" /\ v.bool

----------------------------------------------------------------------------
(* getBaseCoverageSummaries *)

RECURSIVE FileSummaries(_)
FileSummaries(covMap) ==
    IF covMap = <<>> THEN <<>>
    ELSE <<[filename |-> Head(covMap).filename,
            summary |-> toSummary(Head(covMap).data)]>>
         \o FileSummaries(Tail(covMap))

\* createCoverageMap(doc.coverageMap): an absent map gives an empty one
createCoverageMap(doc) ==
    IF doc.hasCoverageMap THEN doc.coverageMap ELSE <<>>

getBaseCoverageSummaries(in, file) ==
    IF in.baseResultsFile = ""
    THEN [kind |-> "array", summaries |-> <<>>]
    ELSE LET baseResults == parseResults(file)
             covMap == createCoverageMap(baseResults.doc)
         IN CASE baseResults.kind = "throw" ->
                    [kind |-> "throw", summaries |-> <<>>]
              [] baseResults.kind = "undefined" ->
                    [kind |-> "array", summaries |-> <<>>]
              [] OTHER ->
                    IF covMap = <<>>
                    THEN [kind |-> "undefined", summaries |-> <<>>]
                    ELSE [kind |-> "array",
                          summaries |->
                              <<[filename |-> ALL_FILES,
                                 summary |-> mergeAll(covMap)]>>
                              \o FileSummaries(covMap)]

\* baseSummaries?.find((s) => s.filename === name)
FindSummary(base, name) ==
    LET hits == {i \in 1..Len(base.summaries) :
                    base.summaries[i].filename = name}
    IN IF base.kind # "array" \/ hits = {}
       THEN [found |-> FALSE, summary |-> mergeAll(<<>>)]
       ELSE [found |-> TRUE,
             summary |-> base.summaries[CHOOSE i \in hits :
                                            \A j \in hits : i <= j].summary]

----------------------------------------------------------------------------
(* getCoverageTable *)

PctRow(label, summary) ==
    [label |-> label,
     cells |-> <<PctCell(summary.statements.pct), PctCell(summary.branches.pct),
                 PctCell(summary.functions.pct), PctCell(summary.lines.pct)>>]

\* the "Δ" row pushed at lines 167-173 and 200-206
DeltaRow(summary, baseSummary) ==
    [label |-> DELTA,
     cells |-> <<PctCell(summary.statements.pct - baseSummary.statements.pct),
                 PctCell(summary.branches.pct - baseSummary.branches.pct),
                 PctCell(summary.functions.pct - baseSummary.functions.pct),
                 PctCell(summary.lines.pct - baseSummary.lines.pct)>>]

\* the working directory is not removed before the comparison
canonicalFilename_Unstripped(filename, cwd) == filename

canonicalFilename(filename, cwd) == ReplaceFirst(filename, cwd)

\* changedFiles.find((f) => f.filename === canonicalFilename)
IsChanged(changedFiles, canonical) ==
    \E i \in 1..Len(changedFiles) : changedFiles[i].filename = canonical

\* the key the per-file delta is looked up under (line 197)
FileBaseKey(filename) == ALL_FILES

\* one pass of the loop at lines 182-208
FileRowsOf(entry, cwd, base, showAll, changedFiles) ==
    LET summary == toSummary(entry.data)
        canonical == canonicalFilename(entry.filename, cwd)
        baseSummary == FindSummary(base, FileBaseKey(entry.filename))
    IN (IF showAll \/ IsChanged(changedFiles, canonical)
        THEN <<PctRow(canonical, summary)>> ELSE <<>>)
       \o (IF baseSummary.found
           THEN <<DeltaRow(summary, baseSummary.summary)>> ELSE <<>>)

RECURSIVE FileRows(_, _, _, _, _)
FileRows(covMap, cwd, base, showAll, changedFiles) ==
    IF covMap = <<>> THEN <<>>
    ELSE FileRowsOf(Head(covMap), cwd, base, showAll, changedFiles)
         \o FileRows(Tail(covMap), cwd, base, showAll, changedFiles)

\* rows up to line 174: header, "All files" and its delta
SummaryRows(covMap, base) ==
    LET allSummary == mergeAll(covMap)
        baseAllSummary == FindSummary(base, ALL_FILES)
    IN <<HEADER_ROW, PctRow(ALL_FILES, allSummary)>>
       \o (IF baseAllSummary.found
           THEN <<DeltaRow(allSummary, baseAllSummary.summary)>> ELSE <<>>)

\* markdown-table: one line per row, the alignment line after the first
RowLine(r) ==
    <<"| ">> \o r.label \o <<" | ", r.cells[1], " | ", r.cells[2], " | ",
                            r.cells[3], " | ", r.cells[4], " |">>

RECURSIVE RowLines(_)
RowLines(rs) ==
    IF rs = <<>> THEN <<>>
    ELSE <<"\n">> \o RowLine(Head(rs)) \o RowLines(Tail(rs))

table(rs) ==
    IF rs = <<>> THEN <<>>
    ELSE RowLine(Head(rs)) \o <<"\n", "| :- | -: | -: | -: | -: |">>
         \o RowLines(Tail(rs))

\* getCoverageTable up to its only await (line 179), or to its return when
\* the changed files are not asked for
TableSync(res, cwd, in, bf) ==
    LET covMap == createCoverageMap(res)
        base == getBaseCoverageSummaries(in, bf)
        head == SummaryRows(covMap, base)
        all == head \o FileRows(covMap, cwd, base, TRUE, <<>>)
    IN CASE ~res.hasCoverageMap ->
                [status |-> "return", rows |-> <<>>, value |-> StringValue(<<>>)]
         [] covMap = <<>> ->
                [status |-> "return", rows |-> <<HEADER_ROW>>, value |-> FalseValue]
         [] base.kind = "throw" ->
                [status |-> "throw", rows |-> <<HEADER_ROW>>, value |-> Thrown]
         [] shouldShowOnlyCoverageChangedFiles(in) ->
                [status |-> "await", rows |-> head, value |-> NoValue]
         [] OTHER ->
                [status |-> "return", rows |-> all,
                 value |-> StringValue(COVERAGE_HEADER \o table(all))]

\* getCoverageTable from the response of getChangedPRFiles to its return
TableResume(res, cwd, in, bf, resp) ==
    LET covMap == createCoverageMap(res)
        base == getBaseCoverageSummaries(in, bf)
        all == SummaryRows(covMap, base)
               \o FileRows(covMap, cwd, base, FALSE, resp.files)
    IN IF resp.state = "ok"
       THEN [status |-> "return", rows |-> all,
             value |-> StringValue(COVERAGE_HEADER \o table(all))]
       ELSE [status |-> "throw", rows |-> SummaryRows(covMap, base),
             value |-> Thrown]

----------------------------------------------------------------------------
(* getCheckPayload, getAnnotations, getOutputText *)

\* terminal colour sequences, as tokens of a message
AnsiCodes == {"ESC[31m", "ESC[39m", "ESC[2m", "ESC[22m"}

\* strip-ansi
strip(str) == SelectSeq(str, LAMBDA t : t \notin AnsiCodes)

Whitespace == {" ", "\n", "\n\n", "\t"}

\* String.prototype.trimRight
RECURSIVE trimRight(_)
trimRight(str) ==
    IF str # <<>> /\ str[Len(str)] \in Whitespace
    THEN trimRight(SubSeq(str, 1, Len(str) - 1))
    ELSE str

\* Array.prototype.join over strings held as token sequences
RECURSIVE JoinTokens(_, _)
JoinTokens(strs, sep) ==
    IF strs = <<>> THEN <<>>
    ELSE IF Len(strs) = 1 THEN Head(strs)
    ELSE Head(strs) \o <<sep>> \o JoinTokens(Tail(strs), sep)

\* Array.prototype.join over plain strings
RECURSIVE JoinStrings(_, _)
JoinStrings(strs, sep) ==
    IF strs = <<>> THEN ""
    ELSE IF Len(strs) = 1 THEN Head(strs)
    ELSE Head(strs) \o sep \o JoinStrings(Tail(strs), sep)

\* the three backquotes that open and close a block of code
FENCE == "[fence]"

asMarkdownCode(str) == <<FENCE, "\n">> \o trimRight(str) \o <<"\n", FENCE>>

\* any status but passed is taken for a failure
IsFailed_NotPassed(assertion) == assertion.status # "passed"

\* filter(result.assertionResults, ["status", "failed"])
IsFailed(assertion) == assertion.status = "failed"

\* assertion.location?.line ?? 0
LineOf(assertion) ==
    IF assertion.location.present THEN assertion.location.line ELSE 0

\* the annotation of one failed assertion (lines 344-351)
Annotation(result, assertion, cwd) ==
    [path |-> ReplaceFirst(result.name, cwd),
     start_line |-> LineOf(assertion),
     end_line |-> LineOf(assertion),
     annotation_level |-> "failure",
     title |-> JoinStrings(Append(assertion.ancestorTitles, assertion.title), " > "),
     message |-> strip(IF assertion.failureMessages.present
                       THEN JoinTokens(assertion.failureMessages.list, "\n\n")
                       ELSE <<>>)]

\* the annotations of one test file, in the order of its assertions
FileAnnotations(result, cwd) ==
    LET failedOnes == SelectSeq(result.assertionResults, IsFailed)
    IN [i \in 1..Len(failedOnes) |-> Annotation(result, failedOnes[i], cwd)]

RECURSIVE FlatMapAnnotations(_, _)
FlatMapAnnotations(testResults, cwd) ==
    IF testResults = <<>> THEN <<>>
    ELSE FileAnnotations(Head(testResults), cwd)
         \o FlatMapAnnotations(Tail(testResults), cwd)

getAnnotations(res, cwd) ==
    IF res.success THEN <<>> ELSE FlatMapAnnotations(res.testResults, cwd)

NoText == [present |-> FALSE, str |-> <<>>]

\* filter(map(results.testResults, (r) => strip(r.message))): the empty ones go
StrippedMessages(testResults) ==
    SelectSeq([i \in 1..Len(testResults) |-> strip(testResults[i].message)],
              LAMBDA m : m # <<>>)

getOutputText(res) ==
    IF res.success THEN NoText
    ELSE [present |-> TRUE,
          str |-> asMarkdownCode(JoinTokens(StrippedMessages(res.testResults), "\n"))]

\* the summary of a passing document (lines 283-285)
PassedSummary(res) ==
    ToString(res.numPassedTests) \o " tests passing in "
    \o ToString(res.numPassedTestSuites) \o " suite"
    \o (IF res.numPassedTestSuites > 1 THEN "s" ELSE "") \o "."

\* the summary of a failing document (line 286)
FailedSummary(res) ==
    "Failed tests: " \o ToString(res.numFailedTests) \o "/"
    \o ToString(res.numTotalTests) \o ". Failed suites: "
    \o ToString(res.numFailedTests) \o "/"
    \o ToString(res.numTotalTestSuites) \o "."

Conclusion(res) == IF res.success THEN "success" ELSE "failure"

\* the payload without the repository and commit of the ambient context
getCheckPayload(res, cwd) ==
    [name |-> ACTION_NAME,
     status |-> "completed",
     conclusion |-> Conclusion(res),
     output |->
        [title |-> IF res.success THEN "Jest tests passed" ELSE "Jest tests failed",
         text |-> getOutputText(res),
         summary |-> IF res.success THEN PassedSummary(res) ELSE FailedSummary(res),
         annotations |-> getAnnotations(res, cwd)]]

NoPayload ==
    [name |-> "", status |-> "", conclusion |-> "",
     output |-> [title |-> "", text |-> NoText, summary |-> "", annotations |-> <<>>]]

----------------------------------------------------------------------------
(* The inputs the model draws from *)

CWD == <<"/w/">>     \* cwd + sep

FA == <<"/w/", "a.ts">>
FB == <<"/w/", "b.ts">>
FX == <<"/x", "/w/", "a.ts">>    \* outside the working directory
FileNames == {FA, FB, FX}

Cov(sc, st, bc, bt, fc, ft, lc, lt) ==
    [statements |-> [covered |-> sc, total |-> st],
     branches |-> [covered |-> bc, total |-> bt],
     functions |-> [covered |-> fc, total |-> ft],
     lines |-> [covered |-> lc, total |-> lt]]

FC1 == Cov(8, 10, 1, 2, 0, 0, 3, 4)
FC2 == Cov(7, 10, 2, 2, 1, 3, 1, 4)
FC3 == Cov(3, 5, 0, 2, 2, 2, 4, 4)
FileDatas == {FC1, FC2}

Entry(f, d) == [filename |-> f, data |-> d]

\* a coverage map is an object: its keys are distinct, in insertion order
CovMaps ==
    {m \in UNION {[1..n -> [filename : FileNames, data : FileDatas]] :
                     n \in 0..MaxFiles} :
        \A i, j \in 1..Len(m) : m[i].filename = m[j].filename => i = j}

Doc(ok, m) == [success |-> ok, hasCoverageMap |-> TRUE, coverageMap |-> m]
DocNoCoverage(ok) == [success |-> ok, hasCoverageMap |-> FALSE, coverageMap |-> <<>>]

BaseMaps == {<<Entry(FA, FC3)>>, <<Entry(FA, FC2), Entry(FB, FC3)>>}

BaseFiles ==
    {MissingFile, MalformedFile, FileOf(DocNoCoverage(TRUE)), FileOf(Doc(TRUE, <<>>))}
    \cup {FileOf(Doc(TRUE, m)) : m \in BaseMaps}

\* base-results-file and the file it names
BaseSettings ==
    {[path |-> "", file |-> MissingFile]}
    \cup {[path |-> "base.json", file |-> f] : f \in BaseFiles}

Changed(f) == [filename |-> f, status |-> "modified"]

NoResponse == [state |-> "none", files |-> <<>>]
FilesResponses ==
    {[state |-> "error", files |-> <<>>]}
    \cup {[state |-> "ok", files |-> fs] :
            fs \in {<<>>, <<Changed(<<"a.ts">>)>>, <<Changed(<<"c.ts">>)>>,
                    <<Changed(<<"b.ts">>), Changed(<<"a.ts">>)>>}}

\* the test part of a result document
Assertion(status, ancestors, title, hasLine, line, hasMessages, messages) ==
    [status |-> status, ancestorTitles |-> ancestors, title |-> title,
     location |-> [present |-> hasLine, line |-> line],
     failureMessages |-> [present |-> hasMessages, list |-> messages]]

AFailAt5 ==
    Assertion("failed", <<"suite", "inner">>, "adds", TRUE, 5, TRUE,
              <<<<"ESC[31m", "expected 1", "ESC[39m">>, <<"at line 5">>>>)
AFailNoLine == Assertion("failed", <<>>, "throws", FALSE, 0, FALSE, <<>>)
APassAt9 == Assertion("passed", <<"suite">>, "works", TRUE, 9, TRUE, <<>>)
APendingAt7 == Assertion("pending", <<"suite">>, "later", TRUE, 7, FALSE, <<>>)
AssertionKinds == {AFailAt5, AFailNoLine, APassAt9, APendingAt7}

\* the i-th test file of a document; jest reports a message for a failing file
TestFile(i, assertions) ==
    [name |-> CWD \o <<"t" \o ToString(i) \o ".test.ts">>,
     message |-> IF \E k \in 1..Len(assertions) : assertions[k].status = "failed"
                 THEN <<"ESC[31m", "FAIL t" \o ToString(i), "ESC[39m", "\n">>
                 ELSE <<>>,
     assertionResults |-> assertions]

\* the lists of at most f test files holding at most a assertions together
RECURSIVE AssertionLists(_, _)
AssertionLists(f, a) ==
    IF f = 0 THEN {<<>>}
    ELSE {<<>>} \cup
         UNION {{<<first>> \o rest : first \in [1..n -> AssertionKinds],
                                     rest \in AssertionLists(f - 1, a - n)} :
                   n \in 0..a}

TestResultsSet ==
    {[i \in 1..Len(l) |-> TestFile(i, l[i])] : l \in AssertionLists(MaxTests, MaxAsserts)}

Counts(pt, ft, ps, fs) ==
    [numPassedTests |-> pt, numFailedTests |-> ft, numTotalTests |-> pt + ft,
     numPassedTestSuites |-> ps, numFailedTestSuites |-> fs,
     numTotalTestSuites |-> ps + fs]

CountCases ==
    {Counts(0, 0, 0, 0), Counts(3, 0, 1, 0), Counts(5, 0, 2, 0),
     Counts(2, 3, 1, 1), Counts(4, 1, 2, 1), Counts(1, 2, 0, 2)}

\* a document with its counts and test files
WithTests(doc, counts, testResults) ==
    [success |-> doc.success, hasCoverageMap |-> doc.hasCoverageMap,
     coverageMap |-> doc.coverageMap,
     numPassedTests |-> counts.numPassedTests,
     numFailedTests |-> counts.numFailedTests,
     numTotalTests |-> counts.numTotalTests,
     numPassedTestSuites |-> counts.numPassedTestSuites,
     numFailedTestSuites |-> counts.numFailedTestSuites,
     numTotalTestSuites |-> counts.numTotalTestSuites,
     testResults |-> testResults]

\* the documents getCheckPayload is applied to
CheckDocs ==
    {WithTests(d, c, t) :
        d \in {DocNoCoverage(TRUE), DocNoCoverage(FALSE),
               Doc(TRUE, <<Entry(FA, FC1)>>), Doc(FALSE, <<Entry(FA, FC1)>>)},
        c \in CountCases, t \in TestResultsSet}

----------------------------------------------------------------------------
(* SpecCheck: getCheckPayload(results, CWD) *)

InitCheck ==
    /\ token = "" /\ pullId = 0
    /\ inputs = [coverageComment |-> "true", coverageChangesOnly |-> "false",
                 baseResultsFile |-> ""]
    /\ baseFile = MissingFile
    /\ resultsFile = MissingFile
    /\ results \in CheckDocs
    /\ thread = <<>> /\ nextId = 1
    /\ pc = "c_call"
    /\ failed = FALSE
    /\ changed = NoResponse
    /\ rows = <<>>
    /\ comment = NoValue
    /\ pending = {}
    /\ log = <<>>
    /\ payload = NoPayload

\* lines 272-293
BuildCheckPayload ==
    /\ pc = "c_call"
    /\ payload' = getCheckPayload(results, CWD)
    /\ pc' = "c_done"
    /\ UNCHANGED <<token, pullId, inputs, baseFile, resultsFile, thread, nextId,
                   failed, results, changed, rows, comment, pending, log>>

NextCheck == BuildCheckPayload

SpecCheck == InitCheck /\ [][NextCheck]_vars

----------------------------------------------------------------------------
(* SpecTable: getCoverageTable(results, CWD, octokit) *)

InitTable ==
    /\ token = "" /\ pullId = 0
    /\ \E b \in BaseSettings, only \in {"true", "false"} :
          /\ inputs = [coverageComment |-> "true", coverageChangesOnly |-> only,
                       baseResultsFile |-> b.path]
          /\ baseFile = b.file
    /\ resultsFile = MissingFile
    /\ results \in {DocNoCoverage(TRUE)} \cup {Doc(TRUE, m) : m \in CovMaps}
    /\ thread = <<>> /\ nextId = 1
    /\ pc = "t_call"
    /\ failed = FALSE
    /\ changed = NoResponse
    /\ rows = <<>>
    /\ comment = NoValue
    /\ pending = {}
    /\ log = <<>>
    /\ payload = NoPayload

\* lines 134-180: to the return, the throw or the await of getChangedPRFiles
TableCall ==
    /\ pc = "t_call"
    /\ LET r == TableSync(results, CWD, inputs, baseFile)
       IN /\ rows' = r.rows
          /\ comment' = r.value
          /\ pc' = IF r.status = "await" THEN "t_await" ELSE "t_done"
    /\ UNCHANGED <<token, pullId, inputs, baseFile, resultsFile, thread, nextId,
                   failed, results, changed, pending, log,
                   payload>>

\* lines 179-210: getChangedPRFiles resolves or rejects, the loop runs
TableFilesDone ==
    /\ pc = "t_await"
    /\ \E resp \in FilesResponses :
          LET r == TableResume(results, CWD, inputs, baseFile, resp)
          IN /\ changed' = resp
             /\ rows' = r.rows
             /\ comment' = r.value
             /\ pc' = "t_done"
    /\ UNCHANGED <<token, pullId, inputs, baseFile, resultsFile, thread, nextId,
                   failed, results, pending, log,
                   payload>>

NextTable == TableCall \/ TableFilesDone

SpecTable == InitTable /\ [][NextTable]_vars

----------------------------------------------------------------------------
(* Spec: run() and the collaborators it calls *)

Min(a, b) == IF a < b THEN a ELSE b

Ev(op, ev, id) == [op |-> op, ev |-> ev, id |-> id]

\* the comments of other people that fill the thread before the drawn ones
Filler(n) == [i \in 1..n |-> [id |-> i, login |-> "alice", body |-> <<"LGTM">>]]

CommentBodies ==
    {COVERAGE_HEADER \o <<"| Filename |">>, <<"LGTM">>,
     <<"> ">> \o COVERAGE_HEADER}

\* the thread ends with up to MaxPrior comments of any author and body
Threads ==
    {Filler(n) \o [i \in 1..Len(t) |-> [id |-> n + i, login |-> t[i].login,
                                       body |-> t[i].body]] :
        n \in {0, PerPage - 1},
        t \in UNION {[1..k -> [login : {BOT_LOGIN, "alice"}, body : CommentBodies]] :
                        k \in 0..MaxPrior}}

\* the test part of a run: all passing, or three failures in one of two files
RunTests(doc) ==
    IF doc.success
    THEN WithTests(doc, Counts(3, 0, 1, 0), <<TestFile(1, <<APassAt9>>)>>)
    ELSE WithTests(doc, Counts(2, 3, 1, 1),
                   <<TestFile(1, <<APassAt9, AFailAt5>>), TestFile(2, <<AFailNoLine>>)>>)

RunDocs ==
    {RunTests(DocNoCoverage(ok)) : ok \in BOOLEAN}
    \cup {RunTests(Doc(ok, m)) : ok \in BOOLEAN,
                                 m \in {<<>>, <<Entry(FA, FC1), Entry(FB, FC2)>>}}

RunResultFiles == {MissingFile, MalformedFile} \cup {FileOf(d) : d \in RunDocs}

RunBaseSettings ==
    {b \in BaseSettings :
        b.file.doc.coverageMap \in {<<>>, <<Entry(FA, FC2), Entry(FB, FC3)>>}}

Init ==
    /\ token \in {"", "ghs_token"}
    /\ pullId \in {0, 7}
    /\ \E b \in RunBaseSettings, cc \in {"true", "false"}, only \in {"true", "false"} :
          /\ inputs = [coverageComment |-> cc, coverageChangesOnly |-> only,
                       baseResultsFile |-> b.path]
          /\ baseFile = b.file
    /\ resultsFile = MissingFile
    /\ thread \in Threads
    /\ nextId = Len(thread) + 1
    /\ pc = "start"
    /\ failed = FALSE
    /\ results = NoDoc
    /\ changed = NoResponse
    /\ rows = <<>>
    /\ comment = NoValue
    /\ pending = {}
    /\ log = <<>>
    /\ payload = NoPayload

\* the token test is skipped
TokenMissing_Never(t) == FALSE

\* token === undefined (line 56)
TokenMissing(t) == t = ""

\* getPullId() && shouldCommentCoverage() (line 82)
WantsCoverageComment(pid, in) == pid # 0 /\ shouldCommentCoverage(in)

\* any string is posted, the empty one too
ShouldPost_AnyString(v) == v.type = "string"

\* if (comment) (line 84)
ShouldPost(v) == Truthy(v)

\* the page issues.listComments returns: per_page comments, oldest first
listComments(th) == SubSeq(th, 1, Min(PerPage, Len(th)))

\* the filter forgets the author
IsPreviousCoverageComment_AnyAuthor(c) == StartsWith(c.body, COVERAGE_HEADER)

\* the filter of deletePreviousComments
IsPreviousCoverageComment(c) ==
    c.login = BOT_LOGIN /\ StartsWith(c.body, COVERAGE_HEADER)

\* the ids deletePreviousComments calls deleteComment with, in order
RECURSIVE DeleteTargets(_)
DeleteTargets(data) ==
    IF data = <<>> THEN <<>>
    ELSE (IF IsPreviousCoverageComment(Head(data)) THEN <<Head(data).id>> ELSE <<>>)
         \o DeleteTargets(Tail(data))

\* the deletions are not awaited
AllDeleted_NotAwaited(pend) == TRUE

\* Promise.all resolves once no deleteComment is in flight
AllDeleted(pend) == pend = {}

\* Promise.all rejects as soon as one deleteComment rejects
DeleteRejects(ok) == ~ok

Range(sq) == {sq[i] : i \in 1..Len(sq)}

RemoveComment(th, id) == SelectSeq(th, LAMBDA c : c.id # id)

\* catch (error) { core.setFailed(error.message) } (lines 95-98)
Catch(lg) ==
    /\ failed' = TRUE
    /\ pc' = "done"
    /\ log' = lg

\* if (!results.success) core.setFailed(...) (lines 91-93), then run() returns
Finish(res, lg) ==
    /\ failed' = ~res.success
    /\ pc' = "done"
    /\ log' = lg

\* lines 84-88, from the value of getCoverageTable to the next await
PostOrFinish(res, v, lg) ==
    IF ShouldPost(v)
    THEN /\ pc' = "list"
         /\ log' = Append(lg, Ev("issues.listComments", "call", 0))
         /\ UNCHANGED failed
    ELSE Finish(res, lg)

\* lines 47-64: the token test, the command, exec is started
RunStart ==
    /\ pc = "start"
    /\ IF TokenMissing(token)
       THEN /\ failed' = TRUE
            /\ pc' = "done"
            /\ UNCHANGED log
       ELSE /\ pc' = "exec"
            /\ log' = Append(log, Ev("exec", "call", 0))
            /\ UNCHANGED failed
    /\ UNCHANGED <<token, pullId, inputs, baseFile, resultsFile, thread, nextId,
                   results, changed, rows, comment, pending,
                   payload>>

\* lines 64-79 and 319-326: the test runner ends (its failure is caught and
\* logged), the result file is parsed, the check is submitted
ExecJestDone ==
    /\ pc = "exec"
    /\ \E exit \in {"ok", "error"}, file \in RunResultFiles :
          LET parsed == parseResults(file)
              lg == Append(Append(log, Ev("exec", exit, 0)),
                           Ev("parseResults", parsed.kind, 0))
          IN /\ resultsFile' = file
             /\ results' = parsed.doc
             /\ IF parsed.kind = "value"
                THEN /\ pc' = "check"
                     /\ payload' = getCheckPayload(parsed.doc, CWD)
                     /\ log' = Append(lg, Ev("checks.create", "call", 0))
                     /\ UNCHANGED failed
                ELSE Catch(lg) /\ UNCHANGED payload
    /\ UNCHANGED <<token, pullId, inputs, baseFile, thread, nextId, changed, rows,
                   comment, pending>>

\* lines 79-93: the check submission ends; getCoverageTable runs to its return
\* or to the await of getChangedPRFiles
ChecksCreateDone ==
    /\ pc = "check"
    /\ \E ok \in BOOLEAN :
          LET lg == Append(log, Ev("checks.create", IF ok THEN "ok" ELSE "error", 0))
              t == TableSync(results, CWD, inputs, baseFile)
          IN IF ~ok
             THEN Catch(lg) /\ UNCHANGED <<rows, comment>>
             ELSE IF ~WantsCoverageComment(pullId, inputs)
             THEN Finish(results, lg) /\ UNCHANGED <<rows, comment>>
             ELSE /\ rows' = t.rows
                  /\ comment' = t.value
                  /\ CASE t.status = "throw" -> Catch(lg)
                       [] t.status = "await" ->
                            /\ pc' = "files"
                            /\ log' = Append(lg, Ev("pulls.listFiles", "call", 0))
                            /\ UNCHANGED failed
                       [] OTHER -> PostOrFinish(results, t.value, lg)
    /\ UNCHANGED <<token, pullId, inputs, baseFile, resultsFile, thread, nextId,
                   results, changed, pending,
                   payload>>

\* lines 179-210 and 374-410: the changed files arrive, or the error is wrapped
\* and thrown again
ListFilesDone ==
    /\ pc = "files"
    /\ \E resp \in FilesResponses :
          LET lg == Append(log, Ev("pulls.listFiles", resp.state, 0))
              t == TableResume(results, CWD, inputs, baseFile, resp)
          IN /\ changed' = resp
             /\ rows' = t.rows
             /\ comment' = t.value
             /\ IF t.status = "throw"
                THEN Catch(lg)
                ELSE PostOrFinish(results, t.value, lg)
    /\ UNCHANGED <<token, pullId, inputs, baseFile, resultsFile, thread, nextId,
                   results, pending,
                   payload>>

\* deletePreviousComments: the page arrives, deleteComment is called for every
\* comment the filter keeps, Promise.all awaits them
ListCommentsDone ==
    /\ pc = "list"
    /\ \E ok \in BOOLEAN :
          LET lg == Append(log, Ev("issues.listComments",
                                   IF ok THEN "ok" ELSE "error", 0))
              targets == DeleteTargets(listComments(thread))
              calls == [i \in 1..Len(targets) |->
                           Ev("issues.deleteComment", "call", targets[i])]
          IN IF ~ok
             THEN Catch(lg) /\ UNCHANGED pending
             ELSE /\ pending' = Range(targets)
                  /\ UNCHANGED failed
                  /\ IF AllDeleted(Range(targets))
                     THEN /\ pc' = "create"
                          /\ log' = Append(lg \o calls,
                                           Ev("issues.createComment", "call", 0))
                     ELSE /\ pc' = "deleting"
                          /\ log' = lg \o calls
    /\ UNCHANGED <<token, pullId, inputs, baseFile, resultsFile, thread, nextId,
                   results, changed, rows, comment,
                   payload>>

\* one deleteComment ends; the first rejection rejects Promise.all, the last
\* success resolves it and createComment is called (lines 85-87)
DeleteCommentDone ==
    /\ pending # {}
    /\ \E id \in pending, ok \in BOOLEAN :
          LET lg == Append(log, Ev("issues.deleteComment",
                                   IF ok THEN "ok" ELSE "error", id))
          IN /\ pending' = pending \ {id}
             /\ thread' = IF ok THEN RemoveComment(thread, id) ELSE thread
             /\ IF pc # "deleting"
                THEN /\ log' = lg
                     /\ UNCHANGED <<pc, failed>>
                ELSE IF DeleteRejects(ok)
                THEN Catch(lg)
                ELSE IF AllDeleted(pending \ {id})
                THEN /\ pc' = "create"
                     /\ log' = Append(lg, Ev("issues.createComment", "call", 0))
                     /\ UNCHANGED failed
                ELSE /\ log' = lg
                     /\ UNCHANGED <<pc, failed>>
    /\ UNCHANGED <<token, pullId, inputs, baseFile, resultsFile, nextId, results,
                   changed, rows, comment,
                   payload>>

\* lines 87-93: createComment ends
CreateCommentDone ==
    /\ pc = "create"
    /\ \E ok \in BOOLEAN :
          LET lg == Append(log, Ev("issues.createComment",
                                   IF ok THEN "ok" ELSE "error", nextId))
          IN IF ok
             THEN /\ thread' = Append(thread, [id |-> nextId, login |-> BOT_LOGIN,
                                               body |-> comment.str])
                  /\ nextId' = nextId + 1
                  /\ Finish(results, lg)
             ELSE /\ Catch(lg)
                  /\ UNCHANGED <<thread, nextId>>
    /\ UNCHANGED <<token, pullId, inputs, baseFile, resultsFile, results, changed,
                   rows, comment, pending,
                   payload>>

Next ==
    \/ RunStart
    \/ ExecJestDone
    \/ ChecksCreateDone
    \/ ListFilesDone
    \/ ListCommentsDone
    \/ DeleteCommentDone
    \/ CreateCommentDone

Spec == Init /\ [][Next]_vars

----------------------------------------------------------------------------
(* Properties of the table (SpecTable) *)

\* getCoverageTable returned a table
TableReturned == pc = "t_done" /\ comment.type = "string" /\ comment.str # <<>>

\* the working-directory prefix removed, as the specification words it
StripPrefix(f, cwd) ==
    IF StartsWith(f, cwd) THEN SubSeq(f, Len(cwd) + 1, Len(f)) ELSE f

IsFileRow(r) == r.label \notin {HEADER_ROW.label, ALL_FILES, DELTA}

ShowOnly == shouldShowOnlyCoverageChangedFiles(inputs)

\* the file passed the changed-file filter
PassedFilter(e) ==
    \/ ~ShowOnly
    \/ \E i \in 1..Len(changed.files) :
          changed.files[i].filename = StripPrefix(e.filename, CWD)

\* the baseline as parsed, when it yields entries
BaseEntries ==
    LET b == parseResults(baseFile)
    IN IF inputs.baseResultsFile # "" /\ b.kind = "value"
       THEN createCoverageMap(b.doc) ELSE <<>>

BaseHas(f) == \E i \in 1..Len(BaseEntries) : BaseEntries[i].filename = f

BaseDataOf(f) ==
    BaseEntries[CHOOSE i \in 1..Len(BaseEntries) : BaseEntries[i].filename = f].data

MetricPcts(s) ==
    <<s.statements.pct, s.branches.pct, s.functions.pct, s.lines.pct>>

\* the cells of a delta row holding current pct minus baseline pct
ExpectedDelta(cur, base) ==
    [k \in 1..4 |-> PctCell(MetricPcts(cur)[k] - MetricPcts(base)[k])]

\* C8: a "Δ" row appears only directly after the "All files" row or directly
\* after the displayed row of a file that passed the changed-file filter, and
\* only when the baseline has an entry with the matching key.
C8_DeltaOnlyAfterMatchingRow ==
    TableReturned =>
        \A i \in 1..Len(rows) :
            rows[i].label = DELTA =>
                /\ i > 1
                /\ \/ rows[i - 1].label = ALL_FILES /\ BaseEntries # <<>>
                   \/ \E k \in 1..Len(results.coverageMap) :
                         LET e == results.coverageMap[k]
                         IN /\ rows[i - 1].label = canonicalFilename(e.filename, CWD)
                            /\ PassedFilter(e)
                            /\ BaseHas(e.filename)

\* C9: each metric of a "Δ" row is the pct of the row directly above it minus
\* the pct of the baseline entry with the same key (the baseline all-files
\* summary under "All files", the baseline's summary of the same file under a
\* file row).
C9_DeltaAgainstSameKey ==
    TableReturned =>
        \A i \in 2..Len(rows) :
            rows[i].label = DELTA =>
                /\ rows[i - 1].label = ALL_FILES =>
                      rows[i].cells = ExpectedDelta(mergeAll(results.coverageMap),
                                                    mergeAll(BaseEntries))
                /\ \A k \in 1..Len(results.coverageMap) :
                      LET e == results.coverageMap[k]
                      IN (/\ rows[i - 1].label = canonicalFilename(e.filename, CWD)
                          /\ BaseHas(e.filename))
                         => rows[i].cells =
                               ExpectedDelta(toSummary(e.data),
                                             toSummary(BaseDataOf(e.filename)))

\* the coverage-map entries expected to have a row, in insertion order
ExpectedFiles == SelectSeq(results.coverageMap, PassedFilter)

FileRowsShown == SelectSeq(rows, IsFileRow)

\* C10: the file rows are exactly the coverage-map files that pass the
\* changed-file filter (every file when change-scoped coverage is off), each
\* once and in insertion order; without a baseline the table is the header
\* row, the "All files" row and those file rows only.
C10_FileRowsAreFilteredMap ==
    TableReturned =>
        /\ Len(FileRowsShown) = Len(ExpectedFiles)
        /\ \A i \in 1..Len(ExpectedFiles) :
              /\ FileRowsShown[i].cells
                    = PctRow(<<>>, toSummary(ExpectedFiles[i].data)).cells
              /\ StartsWith(ExpectedFiles[i].filename, CWD) =>
                    FileRowsShown[i].label
                        = StripPrefix(ExpectedFiles[i].filename, CWD)
        /\ inputs.baseResultsFile = "" =>
              /\ Len(rows) = 2 + Len(ExpectedFiles)
              /\ rows[1] = HEADER_ROW
              /\ rows[2] = PctRow(ALL_FILES, mergeAll(results.coverageMap))
              /\ \A i \in 3..Len(rows) : IsFileRow(rows[i])

\* change-scoped coverage kept one file of two, with no baseline
C10_Witness ==
    /\ TableReturned
    /\ ShowOnly
    /\ inputs.baseResultsFile = ""
    /\ Len(results.coverageMap) = 2
    /\ Len(FileRowsShown) = 1
    /\ FileRowsShown[1].label = <<"a.ts">>

----------------------------------------------------------------------------
(* Properties of run() (Spec) *)

Logged(op, ev) == \E i \in 1..Len(log) : log[i].op = op /\ log[i].ev = ev

\* no call to the source-control collaborator failed
NoCallFailed ==
    \A i \in 1..Len(log) : log[i].ev = "error" => log[i].op = "exec"

CommentCalls == {"issues.listComments", "issues.deleteComment", "issues.createComment"}

\* C1: createComment is called only after checks.create succeeded, the listing
\* succeeded and every deleteComment that was issued succeeded; after a failed
\* check submission or deletion it is never called.
C1_CreateAfterCheckAndDeletes ==
    /\ \A i \in 1..Len(log) :
          (log[i].op = "issues.createComment" /\ log[i].ev = "call") =>
              /\ \E j \in 1..(i - 1) : log[j] = Ev("checks.create", "ok", 0)
              /\ \E j \in 1..(i - 1) : log[j] = Ev("issues.listComments", "ok", 0)
              /\ pending = {}
              /\ \A j \in 1..Len(log) :
                    (log[j].op = "issues.deleteComment" /\ log[j].ev = "call") =>
                        \E k \in (j + 1)..(i - 1) :
                            log[k] = Ev("issues.deleteComment", "ok", log[j].id)
    /\ (\E j \in 1..Len(log) :
            /\ log[j].ev = "error"
            /\ log[j].op \in {"checks.create", "issues.deleteComment"})
        => ~Logged("issues.createComment", "call")

\* two deletions were awaited before createComment was called
C1_Witness ==
    /\ Logged("issues.createComment", "call")
    /\ Cardinality({i \in 1..Len(log) :
                       log[i].op = "issues.deleteComment" /\ log[i].ev = "ok"}) = 2

\* the tool's live coverage comments
CoverageComments ==
    {i \in 1..Len(thread) :
        thread[i].login = BOT_LOGIN /\ StartsWith(thread[i].body, COVERAGE_HEADER)}

\* C2: once a run has posted its coverage comment, that comment is the only
\* coverage comment of the tool on the change request, for any number of
\* prior comments.
C2_OneCoverageComment ==
    Logged("issues.createComment", "ok") => Cardinality(CoverageComments) = 1

\* C3: deletePreviousComments calls deleteComment for exactly the listed
\* comments written by the bot whose body starts with the coverage header, and
\* no other comment ever leaves the thread.
C3_DeletesExactlyBotCoverageComments ==
    [][/\ (pc = "list" /\ pc' \in {"deleting", "create"}) =>
              pending' = {c.id : c \in
                             {d \in Range(listComments(thread)) :
                                 /\ d.login = BOT_LOGIN
                                 /\ StartsWith(d.body, COVERAGE_HEADER)}}
       /\ thread' # thread =>
              \A i \in 1..Len(thread) :
                  thread[i].id \notin {thread'[j].id : j \in 1..Len(thread')} =>
                      /\ thread[i].login = BOT_LOGIN
                      /\ StartsWith(thread[i].body, COVERAGE_HEADER)
                      /\ thread[i].id <= PerPage]_vars

\* a coverage comment was deleted while another author's comment starting
\* with the header stayed
C3_Witness ==
    /\ Logged("issues.deleteComment", "ok")
    /\ pending = {}
    /\ \E i \in 1..Len(thread) :
          /\ thread[i].login # BOT_LOGIN
          /\ StartsWith(thread[i].body, COVERAGE_HEADER)

\* C4: without a token the run is marked failed and nothing else happens: no
\* subprocess, no file read, no call to the collaborator.
C4_NoTokenNoSideEffect ==
    token = "" =>
        /\ log = <<>>
        /\ pc \in {"start", "done"}
        /\ pc = "done" => failed
        /\ resultsFile = MissingFile /\ results = NoDoc /\ comment = NoValue
        /\ pending = {} /\ nextId = Len(thread) + 1

C4_Witness == token = "" /\ pc = "done" /\ failed

\* C5: a run ends failed when the token is missing, the result file is
\* missing or unparsable, or the document has success = false; with a
\* parsable document with success = true and no failing collaborator call it
\* submits the check and ends not failed, whatever the subprocess exit.
C5_FailedExactlyOnBadRun ==
    pc = "done" =>
        /\ (\/ token = ""
            \/ parseResults(resultsFile).kind # "value"
            \/ ~resultsFile.doc.success) => failed
        /\ (/\ token # ""
            /\ parseResults(resultsFile).kind = "value"
            /\ resultsFile.doc.success
            /\ NoCallFailed)
           => (~failed /\ Logged("checks.create", "ok"))

\* C6 as stated: the empty string still leads to createComment, the failure
\* signal suppresses it.
C6_EmptyStringStillPosts ==
    (pc = "done" /\ NoCallFailed) =>
        /\ (comment.type = "string" /\ comment.str = <<>>)
              => Logged("issues.createComment", "call")
        /\ comment.type = "boolean" => ~Logged("issues.createComment", "call")

\* C6 amended: the empty string and the failure signal are treated alike:
\* no comment is listed, deleted or created, and the run goes on to its final
\* success test.
C6_BothSuppressPosting ==
    ((comment.type = "string" /\ comment.str = <<>>) \/ comment.type = "boolean") =>
        /\ \A i \in 1..Len(log) : log[i].op \notin CommentCalls
        /\ pc = "done"
        /\ failed = ~results.success

\* getCoverageTable returned the empty string and the run ended
C6_Witness ==
    /\ pc = "done"
    /\ comment.type = "string" /\ comment.str = <<>>
    /\ Logged("checks.create", "ok")
    /\ ~failed

\* C7: whatever the state of the baseline file (unset, missing, malformed, no
\* coverage map, empty coverage map), the report is built without a fatal
\* error, has no delta row, and the run posts the comment.
C7_BaselineNeverFatal ==
    (/\ pc = "done"
     /\ Logged("checks.create", "ok")
     /\ WantsCoverageComment(pullId, inputs)
     /\ createCoverageMap(results) # <<>>
     /\ BaseEntries = <<>>
     /\ NoCallFailed)
    => /\ comment.type = "string"
       /\ \A i \in 1..Len(rows) : rows[i].label # DELTA
       /\ Logged("issues.createComment", "ok")

----------------------------------------------------------------------------
(* The outcomes of getCoverageTable (SpecTable) *)

\* the text after the coverage header starts with the column header line, the
\* alignment line and the "All files" line
StartsWithSummaryTable(str) ==
    /\ StartsWith(str, COVERAGE_HEADER)
    /\ StartsWith(SubSeq(str, Len(COVERAGE_HEADER) + 1, Len(str)),
                  RowLine(HEADER_ROW) \o <<"\n", "| :- | -: | -: | -: | -: |", "\n">>
                  \o RowLine(PctRow(ALL_FILES, mergeAll(results.coverageMap))))

\* the outcome the three cases of the claim give for the coverage map
ThreeOutcomes ==
    /\ ~results.hasCoverageMap => (comment.type = "string" /\ comment.str = <<>>)
    /\ (results.hasCoverageMap /\ results.coverageMap = <<>>) =>
          (comment.type = "boolean" /\ ~comment.bool /\ rows = <<HEADER_ROW>>)
    /\ (results.hasCoverageMap /\ results.coverageMap # <<>>) =>
          /\ comment.type = "string"
          /\ StartsWithSummaryTable(comment.str)
          /\ rows[1] = HEADER_ROW /\ rows[2].label = ALL_FILES

TableThrows ==
    /\ results.hasCoverageMap /\ results.coverageMap # <<>>
    /\ \/ inputs.baseResultsFile # "" /\ parseResults(baseFile).kind = "throw"
       \/ ShowOnly /\ changed.state = "error"

----------------------------------------------------------------------------
(* When comments are touched (Spec) *)

\* a deleteComment call comes only after the check was submitted, on a change
\* request, with coverage commenting on and a non-empty report body
DeleteOnlyWithReport ==
    \A i \in 1..Len(log) :
        (log[i].op = "issues.deleteComment" /\ log[i].ev = "call") =>
            /\ \E j \in 1..(i - 1) : log[j] = Ev("checks.create", "ok", 0)
            /\ pullId # 0
            /\ inputs.coverageComment = "true"
            /\ comment.type = "string" /\ comment.str # <<>>

\* no result file, no coverage map, an empty one or a failed listing of the
\* changed files: no comment is listed, deleted or created, and the failed
\* listing marks the run failed
NoReportNoCommentCall ==
    (\/ Logged("parseResults", "undefined")
     \/ createCoverageMap(results) = <<>>
     \/ Logged("pulls.listFiles", "error"))
    => /\ \A i \in 1..Len(log) : log[i].op \notin CommentCalls
       /\ Logged("pulls.listFiles", "error") => (pc = "done" /\ failed)

\* createComment is attempted at most once
CreateAtMostOnce ==
    Cardinality({i \in 1..Len(log) :
                    log[i].op = "issues.createComment" /\ log[i].ev = "call"}) <= 1

\* a failed creation leaves the change request without a coverage comment
FailedCreateLeavesNone ==
    Logged("issues.createComment", "error") => CoverageComments = {}

\* C14: prior coverage comments are deleted only in a run that submitted the
\* check, is on a change request with coverage commenting on, and has a
\* non-empty report body; without a report no comment is listed, deleted or
\* created; createComment is attempted at most once, and when it fails after
\* the deletions succeeded the change request has no coverage comment.
C14_DeleteOnlyWithReportCreateOnce ==
    /\ DeleteOnlyWithReport
    /\ NoReportNoCommentCall
    /\ CreateAtMostOnce
    /\ FailedCreateLeavesNone

----------------------------------------------------------------------------
(* The check payload *)

CheckBuilt == pc = "c_done"

\* every assertion of a document, test files in order, assertions in order
RECURSIVE AllAssertions(_)
AllAssertions(testResults) ==
    IF testResults = <<>> THEN <<>>
    ELSE Head(testResults).assertionResults \o AllAssertions(Tail(testResults))

FailedAssertions(res) ==
    SelectSeq(AllAssertions(res.testResults), LAMBDA a : a.status = "failed")

ReportedLine(a) == IF a.location.present THEN a.location.line ELSE 0

\* C11: a passing document gives no annotation and no check text; a failing
\* one gives one annotation per assertion whose status is exactly failed, in
\* document order, with start line = end line = the reported line, or 0 when
\* the assertion has no location.
C11_AnnotationsAreFailedAssertions ==
    CheckBuilt =>
        LET anns == payload.output.annotations
            exp == FailedAssertions(results)
        IN IF results.success
           THEN anns = <<>> /\ ~payload.output.text.present
           ELSE /\ Len(anns) = Len(exp)
                /\ \A i \in 1..Len(exp) :
                      /\ anns[i].start_line = ReportedLine(exp[i])
                      /\ anns[i].end_line = ReportedLine(exp[i])
                      /\ anns[i].title =
                            JoinStrings(exp[i].ancestorTitles \o <<exp[i].title>>, " > ")

\* a failing document of two test files: a failure with no location follows a
\* failure at line 5, and an assertion that did not fail gives no annotation
C11_Witness ==
    /\ CheckBuilt
    /\ ~results.success
    /\ Len(results.testResults) = 2
    /\ Len(AllAssertions(results.testResults)) = 3
    /\ Len(payload.output.annotations) = 2
    /\ payload.output.annotations[1].start_line = 5
    /\ payload.output.annotations[2].start_line = 0
    /\ payload.output.annotations[2].end_line = 0
    /\ payload.output.text.present

\* C13: the conclusion is success exactly for a passing document; a failing
\* document's summary gives numFailedTests out of numTotalTests and the failed
\* suites out of numTotalTestSuites; a passing one gives numPassedTests tests in
\* numPassedTestSuites suites, plural exactly above one.
C13_SummaryInterpolatesMatchingCounts ==
    CheckBuilt =>
        /\ (payload.conclusion = "success") <=> results.success
        /\ payload.output.summary =
              IF results.success
              THEN ToString(results.numPassedTests) \o " tests passing in "
                   \o ToString(results.numPassedTestSuites)
                   \o (IF results.numPassedTestSuites > 1 THEN " suites." ELSE " suite.")
              ELSE "Failed tests: " \o ToString(results.numFailedTests) \o "/"
                   \o ToString(results.numTotalTests) \o ". Failed suites: "
                   \o ToString(results.numFailedTestSuites) \o "/"
                   \o ToString(results.numTotalTestSuites) \o "."

============================================================================
